---------------------------- MODULE Spec2Model ----------------------------
(***************************************************************************)
(* A model of sndiokeys (src/sndiokeys.c): the registry of sndio controls  *)
(* (ctl_list), the key-binding table (key_list) and the main loop that     *)
(* dispatches X11 key events to control edits.                             *)
(*                                                                         *)
(* The sndio transport (libsndio) and the X server are the environment:    *)
(* they deliver descriptors, values, key events and hang-ups, drawn here   *)
(* from small sets.                                                        *)
(***************************************************************************)
EXTENDS Integers, Sequences, FiniteSets, TLC

VARIABLES
    ctl_list,       \* struct ctl *ctl_list: sequence of [desc, val]
    key_list,       \* struct key *key_list: sequence of bindings
    ctl_hdl,        \* struct sioctl_hdl *ctl_hdl: TRUE when non-NULL
    ctl_maxfds,     \* int ctl_maxfds
    maxfds,         \* int maxfds
    beep_pending,   \* int beep_pending
    silent,         \* int silent (-s)
    xkb,            \* int xkb (bell capture enabled, -a)
    xkeymap,        \* the X server's keyboard mapping in force
    pc,             \* position of main(): "args", "drain", "wait", "done"
    last,           \* history: the operation that produced this state
    iter,           \* history of the current loop iteration
    universe        \* which set of controls the transport serves

vars == <<ctl_list, key_list, ctl_hdl, ctl_maxfds, maxfds, beep_pending,
          silent, xkb, xkeymap, pc, last, iter, universe>>

-----------------------------------------------------------------------------
(* Program constants *)

NSTEP == 20
MAXFDS == 64

\* sndio.h control types; the three the switch in ondesc accepts, and one
\* (a vector) that it drops
SIOCTL_NONE == 0
SIOCTL_NUM == 2
SIOCTL_SW == 3
SIOCTL_VEC == 4
SIOCTL_SEL == 6

\* X.h modifier bits
ShiftMask == 1
LockMask == 2
ControlMask == 4
Mod1Mask == 8
Mod2Mask == 16
Mod4Mask == 64

RECURSIVE BitAnd(_, _)
BitAnd(a, b) ==
    IF a = 0 \/ b = 0 THEN 0
    ELSE (IF a % 2 = 1 /\ b % 2 = 1 THEN 1 ELSE 0) + 2 * BitAnd(a \div 2, b \div 2)

RECURSIVE BitOr(_, _)
BitOr(a, b) ==
    IF a = 0 THEN b
    ELSE IF b = 0 THEN a
    ELSE (IF a % 2 = 1 \/ b % 2 = 1 THEN 1 ELSE 0) + 2 * BitOr(a \div 2, b \div 2)

RECURSIVE BitXor(_, _)
BitXor(a, b) ==
    IF a = 0 THEN b
    ELSE IF b = 0 THEN a
    ELSE (IF a % 2 # b % 2 THEN 1 ELSE 0) + 2 * BitXor(a \div 2, b \div 2)

MODMASK == BitOr(ControlMask, BitOr(Mod1Mask, Mod4Mask))

-----------------------------------------------------------------------------
(* Strings.  strcmp() orders strings by their bytes; StrTab lists every    *)
(* string the model uses in that order, and strcmp is the difference of    *)
(* the positions (only its sign is used by the program).                   *)

StrTab == <<"", "0", "1", "2", "app", "device", "level", "mute", "output", "server">>

StrIdx(s) == CHOOSE k \in 1..Len(StrTab) : StrTab[k] = s

strcmp(s1, s2) == StrIdx(s1) - StrIdx(s2)

-----------------------------------------------------------------------------
(* The registry: struct ctl, cmpdesc, nextctl, nextent, ondesc, onval *)

NULLDESC == [null |-> TRUE]

Desc(addr, group, name, unit, type, func, name1, unit1, maxval) ==
    [addr |-> addr, group |-> group,
     node0 |-> [name |-> name, unit |-> unit],
     type |-> type, func |-> func,
     node1 |-> [name |-> name1, unit |-> unit1],
     maxval |-> maxval]

cmpdesc(d1, d2) ==
    LET r1 == strcmp(d1.group, d2.group)
        r2 == strcmp(d1.node0.name, d2.node0.name)
        r3 == d1.type - d2.type
        r4 == strcmp(d1.func, d2.func)
        r5 == d1.node0.unit - d2.node0.unit
        r6 == strcmp(d1.node1.name, d2.node1.name)
        r7 == d1.node1.unit - d2.node1.unit
    IN  IF r1 # 0 THEN r1
        ELSE IF r2 # 0 THEN r2
        ELSE IF r3 # 0 THEN r3
        ELSE IF r4 # 0 THEN r4
        ELSE IF d1.type = SIOCTL_SEL
             THEN IF r5 # 0 THEN r5
                  ELSE IF r6 # 0 THEN r6
                  ELSE r7
             ELSE r5

\* Positions in ctl_list are 1..Len; 0 stands for NULL.
RECURSIVE nextctl_scan(_, _, _)
nextctl_scan(list, i, j) ==
    IF j > Len(list) THEN 0
    ELSE IF \/ strcmp(list[j].desc.group, list[i].desc.group) # 0
            \/ strcmp(list[j].desc.node0.name, list[i].desc.node0.name) # 0
            \/ strcmp(list[j].desc.func, list[i].desc.func) # 0
            \/ list[j].desc.node0.unit # list[i].desc.node0.unit
         THEN j
         ELSE nextctl_scan(list, i, j + 1)

nextctl(list, i) == nextctl_scan(list, i, i + 1)

RECURSIVE nextent_scan(_, _, _)
nextent_scan(list, i, j) ==
    IF j > Len(list) THEN 0
    ELSE IF \/ strcmp(list[j].desc.group, list[i].desc.group) # 0
            \/ strcmp(list[j].desc.node0.name, list[i].desc.node0.name) # 0
            \/ strcmp(list[j].desc.func, list[i].desc.func) # 0
         THEN 0
         ELSE IF list[j].desc.node0.unit = list[i].desc.node0.unit
              THEN j
              ELSE nextent_scan(list, i, j + 1)

nextent(list, i) == nextent_scan(list, i, i + 1)

\* ondesc without its first loop
RemoveAddr_Keep(list, addr) == list

\* The first loop of ondesc: unlink the first entry with the descriptor's
\* address.
RemoveAddr(list, addr) ==
    IF \E k \in 1..Len(list) : list[k].desc.addr = addr
    THEN LET k == CHOOSE k \in 1..Len(list) :
                    /\ list[k].desc.addr = addr
                    /\ \A j \in 1..(k - 1) : list[j].desc.addr # addr
         IN  SubSeq(list, 1, k - 1) \o SubSeq(list, k + 1, Len(list))
    ELSE list

\* The second loop of ondesc: the number of entries the scan passes before
\* it stops at the first one with cmpdesc(desc, entry) <= 0.
InsertPosCmp_Swapped(c) == c >= 0

InsertPosCmp(c) == c <= 0

RECURSIVE InsertPos(_, _, _)
InsertPos(list, desc, k) ==
    IF k > Len(list) THEN Len(list)
    ELSE IF InsertPosCmp(cmpdesc(desc, list[k].desc)) THEN k - 1
    ELSE InsertPos(list, desc, k + 1)

Supported(type) == type \in {SIOCTL_NUM, SIOCTL_SW, SIOCTL_SEL}

ondesc(list, desc, val) ==
    IF desc = NULLDESC THEN list
    ELSE LET l1 == RemoveAddr(list, desc.addr)
         IN  IF ~Supported(desc.type) THEN l1
             ELSE LET p == InsertPos(l1, desc, 1)
                  IN  SubSeq(l1, 1, p) \o <<[desc |-> desc, val |-> val]>>
                          \o SubSeq(l1, p + 1, Len(l1))

\* onval without the loop that clears the other entries of a selector
onval_NoClear(list, addr, val) ==
    IF \E k \in 1..Len(list) : list[k].desc.addr = addr
    THEN LET i == CHOOSE k \in 1..Len(list) : list[k].desc.addr = addr
         IN  [list EXCEPT ![i].val =
                 IF list[i].desc.type = SIOCTL_SEL THEN 1 ELSE val]
    ELSE list

\* The position of the first entry with this address, 0 if there is none.
FindAddr(list, addr) ==
    IF \E k \in 1..Len(list) : list[k].desc.addr = addr
    THEN CHOOSE k \in 1..Len(list) :
             /\ list[k].desc.addr = addr
             /\ \A j \in 1..(k - 1) : list[j].desc.addr # addr
    ELSE 0

onval(list, addr, val) ==
    LET i == FindAddr(list, addr)
    IN  IF i = 0 THEN list
        ELSE IF list[i].desc.type = SIOCTL_SEL
        THEN [j \in 1..Len(list) |->
                 IF \/ strcmp(list[i].desc.group, list[j].desc.group) # 0
                    \/ strcmp(list[i].desc.node0.name, list[j].desc.node0.name) # 0
                    \/ strcmp(list[i].desc.func, list[j].desc.func) # 0
                    \/ list[i].desc.node0.unit # list[j].desc.node0.unit
                 THEN list[j]
                 ELSE [list[j] EXCEPT !.val =
                          IF list[i].desc.addr = list[j].desc.addr THEN 1 ELSE 0]]
        ELSE [list EXCEPT ![i].val = val]

-----------------------------------------------------------------------------
(* Edits.  The functions below work on a record m of the globals they read *)
(* and write (ctl_list, ctl_hdl, ctl_maxfds, maxfds, beep_pending) plus    *)
(* three history fields: sent (the sioctl_setval calls made, in order),    *)
(* opens (the ctl_open calls made) and changed (some i->val was given a    *)
(* different value).                                                       *)

\* sioctl_setval(ctl_hdl, addr, val)
sioctl_setval(m, addr, val) ==
    [m EXCEPT !.sent = Append(@, [addr |-> addr, val |-> val, hdl |-> m.ctl_hdl])]

\* SetBeep that never requests feedback
SetBeep_Never(m) == m

\* if (!silent) beep_pending = 1;
SetBeep(m) == IF silent = 0 THEN [m EXCEPT !.beep_pending = 1] ELSE m

\* i->val = val
SetCtlVal(m, i, val) ==
    [m EXCEPT !.ctl_list[i].val = val,
              !.changed = @ \/ (m.ctl_list[i].val # val)]

\* the step rounded down instead of up
StepIncr_Floor(maxval) == maxval \div NSTEP

\* incr = ((int)i->desc.maxval + NSTEP - 1) / NSTEP
StepIncr(maxval) == (maxval + NSTEP - 1) \div NSTEP

\* the lower clamp only
ClampVal_NoUpper(val, maxval) == IF val < 0 THEN 0 ELSE val

\* the two clamps of setval_num
ClampVal(val, maxval) ==
    LET v1 == IF val < 0 THEN 0 ELSE val
    IN  IF v1 > maxval THEN maxval ELSE v1

\* the low bit set instead of flipped
FlipVal_Or(val) == BitOr(val, 1)

\* val = i->val ^ 1
FlipVal(val) == BitXor(val, 1)

\* NumCommit without the command to the transport
NumCommit_NoSend(m, i, val) == SetBeep(SetCtlVal(m, i, val))

\* the tail of setval_num: store, push, request feedback
NumCommit(m, i, val) ==
    SetBeep(sioctl_setval(SetCtlVal(m, i, val), m.ctl_list[i].desc.addr, val))

setval_num(m, i, dir) ==
    LET c == m.ctl_list[i]
    IN  IF c.desc.maxval > 1 /\ dir # 0
        THEN LET val == ClampVal(c.val + dir * StepIncr(c.desc.maxval), c.desc.maxval)
             IN  IF val = c.val THEN m ELSE NumCommit(m, i, val)
        ELSE IF c.desc.maxval = 1 /\ dir = 0
        THEN NumCommit(m, i, FlipVal(c.val))
        ELSE m

\* "find the current entry": the first entry from cur on, along nextent,
\* whose val is not 0; 0 if there is none
RECURSIVE FindCur(_, _)
FindCur(list, cur) ==
    IF cur = 0 THEN 0
    ELSE IF list[cur].val # 0 THEN cur
    ELSE FindCur(list, nextent(list, cur))

\* FindNext without the wrap to the first entry
FindNext_NoWrap(list, first, cur) ==
    LET n == nextent(list, cur)
    IN  IF n = 0 THEN cur ELSE n

\* "find the next entry": nextent(cur), or first when that is NULL
FindNext(list, first, cur) ==
    LET n == nextent(list, cur)
    IN  IF n = 0 THEN first ELSE n

\* the tail of setval_sel pushing the old entry as well
SelCommit_PushBoth(m, cur, next) ==
    SetBeep(sioctl_setval(
        sioctl_setval(SetCtlVal(SetCtlVal(m, cur, 0), next, 1),
                      m.ctl_list[cur].desc.addr, 0),
        m.ctl_list[next].desc.addr, 1))

\* the tail of setval_sel: move the 1, push the new entry, request feedback
SelCommit(m, cur, next) ==
    SetBeep(sioctl_setval(SetCtlVal(SetCtlVal(m, cur, 0), next, 1),
                          m.ctl_list[next].desc.addr, 1))

setval_sel(m, first, dir) ==
    IF dir # 0 THEN m
    ELSE LET cur == FindCur(m.ctl_list, first)
         IN  IF cur = 0 THEN m
             ELSE LET next == FindNext(m.ctl_list, first, cur)
                  IN  IF next = cur THEN m
                      ELSE SelCommit(m, cur, next)

\* An attempt to open the transport has one of these outcomes, chosen by
\* the environment: sioctl_open fails, or it succeeds, sioctl_ondesc
\* delivers the controls of dump (descriptor and value, in order) and
\* sioctl_nfds returns nfds.
OpenFails == [ok |-> FALSE, nfds |-> 0, dump |-> <<>>]

RECURSIVE ApplyDump(_, _)
ApplyDump(list, dump) ==
    IF dump = <<>> THEN list
    ELSE ApplyDump(ondesc(list, Head(dump).desc, Head(dump).val), Tail(dump))

\* the test passing a total of MAXFDS
TooManyFds_Late(n, cur) == n + cur > MAXFDS

\* if (ctl_maxfds + maxfds >= MAXFDS)
TooManyFds(n, cur) == n + cur >= MAXFDS

ctl_open(m, out) ==
    IF ~out.ok
    THEN [m EXCEPT !.ctl_hdl = FALSE, !.opens = @ + 1]
    ELSE LET m1 == [m EXCEPT !.ctl_hdl = TRUE,
                             !.opens = @ + 1,
                             !.ctl_list = ondesc(ApplyDump(@, out.dump), NULLDESC, 0),
                             !.ctl_maxfds = out.nfds]
         IN  IF TooManyFds(m1.ctl_maxfds, m1.maxfds)
             THEN [m1 EXCEPT !.ctl_hdl = FALSE, !.closes = @ + 1]
             ELSE [m1 EXCEPT !.maxfds = @ + m1.ctl_maxfds]

ctl_close(m) ==
    [m EXCEPT !.ctl_list = <<>>,
              !.maxfds = @ - m.ctl_maxfds,
              !.closes = @ + 1,
              !.ctl_hdl = FALSE]

\* the match of setval without the test of the group
SetvalMatch_AnyGroup(c, name, func) ==
    /\ strcmp(c.desc.node0.name, name) = 0
    /\ strcmp(c.desc.func, func) = 0

\* if (i->desc.group[0] == 0 && strcmp(name) == 0 && strcmp(func) == 0)
SetvalMatch(c, name, func) ==
    /\ c.desc.group = ""
    /\ strcmp(c.desc.node0.name, name) = 0
    /\ strcmp(c.desc.func, func) = 0

\* the while (1) loop of setval, from entry i on
RECURSIVE setval_loop(_, _, _, _, _)
setval_loop(m, i, name, func, dir) ==
    IF i = 0 THEN m
    ELSE LET m1 == IF SetvalMatch(m.ctl_list[i], name, func)
                   THEN IF m.ctl_list[i].desc.type = SIOCTL_SEL
                        THEN setval_sel(m, i, dir)
                        ELSE setval_num(m, i, dir)
                   ELSE m
         IN  setval_loop(m1, nextctl(m1.ctl_list, i), name, func, dir)

\* i = ctl_list
ListHead(list) == IF Len(list) = 0 THEN 0 ELSE 1

\* setval that looks the control up whether or not ctl_open succeeded
setval_LookupAnyway(m, name, func, dir, out) ==
    LET m1 == IF ~m.ctl_hdl THEN ctl_open(m, out) ELSE m
    IN  setval_loop(m1, ListHead(m1.ctl_list), name, func, dir)

setval(m, name, func, dir, out) ==
    LET m1 == IF ~m.ctl_hdl THEN ctl_open(m, out) ELSE m
    IN  IF ~m1.ctl_hdl THEN m1
        ELSE setval_loop(m1, ListHead(m1.ctl_list), name, func, dir)

-----------------------------------------------------------------------------
(* The globals as a record, and back *)

Machine ==
    [ctl_list |-> ctl_list, ctl_hdl |-> ctl_hdl, ctl_maxfds |-> ctl_maxfds,
     maxfds |-> maxfds, beep_pending |-> beep_pending,
     sent |-> <<>>, opens |-> 0, closes |-> 0, changed |-> FALSE]

Store(m) ==
    /\ ctl_list' = m.ctl_list
    /\ ctl_hdl' = m.ctl_hdl
    /\ ctl_maxfds' = m.ctl_maxfds
    /\ maxfds' = m.maxfds
    /\ beep_pending' = m.beep_pending

\* history of one loop iteration: X events drained, events whose edits
\* changed a value, calls of play_beep
IterZero == [nev |-> 0, nchg |-> 0, nbeep |-> 0]

-----------------------------------------------------------------------------
(* Bounds of the model *)

\* transport addresses are 0..MaxAddr
MaxAddr == 2

Addrs == 0..MaxAddr

-----------------------------------------------------------------------------
(* The controls the transport may announce.  A shape is a descriptor with  *)
(* its address left open; values run over 0..maxval.                       *)

SelDev(unit, label) ==
    Desc(0, "", "server", unit, SIOCTL_SEL, "device", label, 0, 1)

\* the controls of the registry specification.  "sel": one selector with
\* options "0", "1", "2" and a second one that differs in the unit of its
\* name.  "mix": a selector with two options, a numeric control with the
\* selector's name and func, one with another func, and a control of a type
\* the program drops.
SelShapes ==
    { SelDev(0, "0"), SelDev(0, "1"), SelDev(0, "2"), SelDev(1, "0") }

MixShapes ==
    { SelDev(0, "0"), SelDev(0, "1"),
      Desc(0, "", "server", 0, SIOCTL_NUM, "device", "", 0, 1),
      Desc(0, "", "server", 0, SIOCTL_NUM, "level", "", 0, 1),
      Desc(0, "", "server", 0, SIOCTL_VEC, "level", "", 0, 1) }

\* a numeric control, a selector option, and a control of a type ondesc
\* does not keep
AddrShapes ==
    { Desc(0, "", "output", 0, SIOCTL_NUM, "level", "", 0, 1),
      SelDev(0, "0"),
      Desc(0, "", "output", 0, SIOCTL_VEC, "level", "", 0, 1) }

Shapes ==
    IF universe = "sel" THEN SelShapes
    ELSE IF universe = "mix" THEN MixShapes
    ELSE IF universe = "addr" THEN AddrShapes
    ELSE {}

\* the controls of a device, by address: "dev" is a small sndiod (a level
\* of range 0..2 and a selector server.device with options "0" and "1");
\* "e2e" is the one control output.level of range 0..127
DevShape(a) ==
    IF universe = "e2e"
    THEN Desc(a, "", "output", 0, SIOCTL_NUM, "level", "", 0, 127)
    ELSE IF a = 0 THEN Desc(a, "", "output", 0, SIOCTL_NUM, "level", "", 0, 2)
    ELSE IF a = 1 THEN Desc(a, "", "server", 0, SIOCTL_SEL, "device", "0", 0, 1)
    ELSE Desc(a, "", "server", 0, SIOCTL_SEL, "device", "1", 0, 1)

DevAddrs == IF universe = "e2e" THEN {0} ELSE {0, 1, 2}

\* the values the device reports for the control at address a
DevVals(a) ==
    IF universe = "e2e" THEN {0, 60, 127} ELSE 0..DevShape(a).maxval

\* what sioctl delivers to ondesc: a descriptor with a value in range, a
\* descriptor of type SIOCTL_NONE (the control is gone), or NULL (the end
\* of a dump)
Announce ==
    IF universe \in {"sel", "mix", "addr"}
    THEN { [desc |-> [s EXCEPT !.addr = a], val |-> v] :
               s \in Shapes, a \in Addrs, v \in 0..1 }
         \cup { [desc |-> NULLDESC, val |-> 0] }
    ELSE UNION { { [desc |-> DevShape(a), val |-> v] : v \in DevVals(a) }
                 \cup { [desc |-> [DevShape(a) EXCEPT !.type = SIOCTL_NONE], val |-> 0] }
                 : a \in DevAddrs }

-----------------------------------------------------------------------------
(* The registry specification: the callbacks and setval, called in any     *)
(* order on an open transport.                                             *)

InitReg ==
    /\ ctl_list = <<>>
    /\ key_list = <<>>
    /\ ctl_hdl = TRUE
    /\ ctl_maxfds = 1
    /\ maxfds = 2
    /\ beep_pending = 0
    /\ silent = 0
    /\ xkb = 0
    /\ xkeymap = <<>>
    /\ pc = "wait"
    /\ last = [op |-> "init", sent |-> <<>>]
    /\ iter = IterZero
    /\ universe \in {"sel", "mix"}

RegOnDesc ==
    \E n \in Announce :
        /\ ctl_list' = ondesc(ctl_list, n.desc, n.val)
        /\ last' = [op |-> "ondesc", sent |-> <<>>]
        /\ UNCHANGED <<key_list, ctl_hdl, ctl_maxfds, maxfds, beep_pending,
                       silent, xkb, xkeymap, pc, iter, universe>>

RegOnVal ==
    \E a \in Addrs, v \in 0..1 :
        /\ \A k \in 1..Len(ctl_list) :
               ctl_list[k].desc.addr = a => v <= ctl_list[k].desc.maxval
        /\ ctl_list' = onval(ctl_list, a, v)
        /\ last' = [op |-> "onval", sent |-> <<>>]
        /\ UNCHANGED <<key_list, ctl_hdl, ctl_maxfds, maxfds, beep_pending,
                       silent, xkb, xkeymap, pc, iter, universe>>

RegSetVal ==
    \E name \in {"server", "output"}, func \in {"device", "level"}, dir \in {-1, 0, 1} :
        LET m == setval(Machine, name, func, dir, OpenFails)
        IN  /\ Store(m)
            /\ last' = [op |-> "setval", sent |-> m.sent]
            /\ UNCHANGED <<key_list, silent, xkb, xkeymap, pc, iter, universe>>

NextReg == RegOnDesc \/ RegOnVal \/ RegSetVal

SpecReg == InitReg /\ [][NextReg]_vars

-----------------------------------------------------------------------------
(* Properties of the registry *)

\* the total order of the registry, as a lexicographic order on keys
OrderKey(d) ==
    <<StrIdx(d.group), StrIdx(d.node0.name), d.type, StrIdx(d.func), d.node0.unit>>
        \o (IF d.type = SIOCTL_SEL
            THEN <<StrIdx(d.node1.name), d.node1.unit>>
            ELSE <<>>)

RECURSIVE LexLe(_, _)
LexLe(k1, k2) ==
    IF k1 = <<>> \/ k2 = <<>> THEN TRUE
    ELSE IF Head(k1) < Head(k2) THEN TRUE
    ELSE IF Head(k1) > Head(k2) THEN FALSE
    ELSE LexLe(Tail(k1), Tail(k2))

Sorted(list) ==
    \A k \in 1..(Len(list) - 1) :
        LexLe(OrderKey(list[k].desc), OrderKey(list[k + 1].desc))

\* a control group: the entities sharing group, name and func
SameGroup(d1, d2) ==
    d1.group = d2.group /\ d1.node0.name = d2.node0.name /\ d1.func = d2.func

SameUnitGroup(d1, d2) ==
    SameGroup(d1, d2) /\ d1.node0.unit = d2.node0.unit

CtlGroup(list, i) == {j \in 1..Len(list) : SameGroup(list[i].desc, list[j].desc)}

UnitGroup(list, i) == {j \in 1..Len(list) : SameUnitGroup(list[i].desc, list[j].desc)}

IsSel(list, i) == list[i].desc.type = SIOCTL_SEL

Sels(list) == {j \in 1..Len(list) : IsSel(list, j)}

Ones(list, S) == Cardinality({j \in S : list[j].val = 1})

Contiguous(list, Same(_, _)) ==
    \A i, j, k \in 1..Len(list) :
        (i < j /\ j < k /\ Same(list[i].desc, list[k].desc))
            => Same(list[i].desc, list[j].desc)

SameKindGroup(d1, d2) == SameGroup(d1, d2) /\ d1.type = d2.type

\* C2 as claimed: the registry is sorted under the total order and the
\* entities sharing (group, name, func) are contiguous.
C2_SortedAndGroupsContiguous ==
    Sorted(ctl_list) /\ Contiguous(ctl_list, SameGroup)

\* C2, amended: after any sequence of control-added / control-removed
\* notifications the registry is sorted under the total order (group, name,
\* kind, func, unit, and for selectors label and its unit), and the entities
\* sharing (group, name, kind, func) are contiguous.
C2_SortedAndKindGroupsContiguous ==
    Sorted(ctl_list) /\ Contiguous(ctl_list, SameKindGroup)

\* An added notification has put a third control in the registry, two of
\* the three sharing group, name, kind and func and two sharing group, name
\* and func but not the kind.
C2_Witness ==
    /\ last.op = "ondesc"
    /\ Len(ctl_list) = 3
    /\ \E i, j \in 1..3 : i # j /\ SameKindGroup(ctl_list[i].desc, ctl_list[j].desc)
    /\ \E i, j \in 1..3 : /\ SameGroup(ctl_list[i].desc, ctl_list[j].desc)
                          /\ ctl_list[i].desc.type # ctl_list[j].desc.type

\* the step was onval(a, v), for some value v
StepIsOnVal(a) ==
    /\ last'.op = "onval"
    /\ \E v \in 0..1 : ctl_list' = onval(ctl_list, a, v)

\* the step was setval(name, func, dir) on an open transport
StepIsSetVal(name, func, dir) ==
    /\ last'.op = "setval"
    /\ ctl_hdl
    /\ LET m == setval(Machine, name, func, dir, OpenFails)
       IN  ctl_list' = m.ctl_list /\ last'.sent = m.sent

\* the selector entities among S
SelOnes(list, S) == Ones(list, S \cap Sels(list))

\* C3 as claimed: after a value notification for a selector entity, and
\* after a Cycle edit of a selector group, at most one member of the control
\* group (the entities sharing group, name and func) has value 1.
C3_AtMostOneInGroup ==
    [][ /\ \A a \in Addrs :
              LET i == FindAddr(ctl_list, a)
              IN  (i # 0 /\ IsSel(ctl_list, i) /\ StepIsOnVal(a))
                      => Ones(ctl_list', CtlGroup(ctl_list', i)) <= 1
        /\ \A i \in 1..Len(ctl_list) :
              (/\ IsSel(ctl_list, i)
               /\ ctl_list[i].desc.group = ""
               /\ StepIsSetVal(ctl_list[i].desc.node0.name, ctl_list[i].desc.func, 0))
                  => Ones(ctl_list', CtlGroup(ctl_list', i)) <= 1
      ]_vars

\* C3, amended: after a value notification for a selector entity exactly
\* one of the entities sharing its group, name, func and unit has value 1,
\* the notified one; and a Cycle edit never raises the number of selector
\* entities at value 1 among those sharing group, name, func and unit, so
\* that at most one is at 1 after the edit if at most one was before it.
C3_OneHotPerUnit ==
    [][ /\ \A a \in Addrs :
              LET i == FindAddr(ctl_list, a)
              IN  (i # 0 /\ IsSel(ctl_list, i) /\ StepIsOnVal(a))
                      => /\ ctl_list'[i].val = 1
                         /\ \A j \in UnitGroup(ctl_list', i) \ {i} :
                                ctl_list'[j].val = 0
        /\ \A i \in 1..Len(ctl_list) :
              (/\ IsSel(ctl_list, i)
               /\ \E name \in {"server", "output"}, func \in {"device", "level"} :
                      StepIsSetVal(name, func, 0))
                  => SelOnes(ctl_list', UnitGroup(ctl_list', i))
                         <= SelOnes(ctl_list, UnitGroup(ctl_list, i))
      ]_vars

\* A notification has left a selector entity at 1 while a member of its
\* control group with another unit is at 1 too.
C3_Witness ==
    /\ last.op = "onval"
    /\ \E i, j \in Sels(ctl_list) :
          /\ SameGroup(ctl_list[i].desc, ctl_list[j].desc)
          /\ ctl_list[i].desc.node0.unit # ctl_list[j].desc.node0.unit
          /\ ctl_list[i].val = 1
          /\ ctl_list[j].val = 1
          /\ Cardinality(UnitGroup(ctl_list, i)) >= 2

\* the member after k in S, in registry order, wrapping to the first
CyclicNext(S, k) ==
    IF \E j \in S : j > k
    THEN CHOOSE j \in S : j > k /\ \A h \in S : h > k => j <= h
    ELSE CHOOSE j \in S : \A h \in S : j <= h

\* the step law of Cycle for the members G of a selector group with one
\* active member
CycleAdvances(G) ==
    LET act == CHOOSE j \in G : ctl_list[j].val # 0
        nxt == CyclicNext(G, act)
    IN  /\ ctl_list'[nxt].val = 1
        /\ \A j \in G \ {nxt} : ctl_list'[j].val = 0

OneActive(list, G) == Cardinality({j \in G : list[j].val # 0}) = 1

\* C6 as claimed: a Cycle edit of a selector's control group (the entities
\* sharing group, name and func) of two or more members, one of them
\* active, makes the next member in registry order the active one, wrapping
\* from the last to the first.
C6_CycleAdvancesGroup ==
    [][ \A i \in 1..Len(ctl_list) :
          LET G == CtlGroup(ctl_list, i)
          IN  (/\ IsSel(ctl_list, i)
               /\ ctl_list[i].desc.group = ""
               /\ Cardinality(G) >= 2
               /\ OneActive(ctl_list, G)
               /\ StepIsSetVal(ctl_list[i].desc.node0.name, ctl_list[i].desc.func, 0))
                  => CycleAdvances(G)
      ]_vars

\* C6, amended: the same for the entities sharing group, name, func and
\* unit, when all of them are selector entries.
C6_CycleAdvancesUnitGroup ==
    [][ \A i \in 1..Len(ctl_list) :
          LET G == UnitGroup(ctl_list, i)
          IN  (/\ G \subseteq Sels(ctl_list)
               /\ ctl_list[i].desc.group = ""
               /\ Cardinality(G) >= 2
               /\ OneActive(ctl_list, G)
               /\ StepIsSetVal(ctl_list[i].desc.node0.name, ctl_list[i].desc.func, 0))
                  => CycleAdvances(G)
      ]_vars

\* A Cycle edit has wrapped: the registry holds the options "0", "1", "2" of
\* one selector, the first is the active one, and the edit pushed it.
C6_Witness ==
    /\ last.op = "setval"
    /\ Len(ctl_list) = 3
    /\ UnitGroup(ctl_list, 1) = {1, 2, 3}
    /\ {1, 2, 3} \subseteq Sels(ctl_list)
    /\ <<ctl_list[1].val, ctl_list[2].val, ctl_list[3].val>> = <<1, 0, 0>>
    /\ last.sent = <<[addr |-> ctl_list[1].desc.addr, val |-> 1, hdl |-> TRUE]>>

-----------------------------------------------------------------------------
(* The numeric specification: one top-level control output.level, of any   *)
(* range 0..maxval, edited by setval and set by value notifications.       *)
(* last.ninc counts the Increase edits made since the initial value 0, as  *)
(* long as nothing else was done (-1 afterwards).                          *)

\* the largest maxval tried
MaxMaxval == 127

\* the largest number of Increase edits counted
MaxInc == 22

NumCtl(type, maxval) ==
    [desc |-> Desc(0, "", "output", 0, type, "level", "", 0, maxval), val |-> 0]

NotifyVals(maxval) == {v \in {0, 1, 60, maxval} : v <= maxval}

InitNum ==
    /\ \E maxval \in 1..MaxMaxval, type \in {SIOCTL_NUM, SIOCTL_SW} :
          /\ type = SIOCTL_SW => maxval = 1
          /\ ctl_list = <<NumCtl(type, maxval)>>
    /\ key_list = <<>>
    /\ ctl_hdl = TRUE
    /\ ctl_maxfds = 1
    /\ maxfds = 2
    /\ beep_pending = 0
    /\ silent = 0
    /\ xkb = 0
    /\ xkeymap = <<>>
    /\ pc = "wait"
    /\ last = [op |-> "init", dir |-> 0, sent |-> <<>>, ninc |-> 0]
    /\ iter = IterZero
    /\ universe = "num"

NumSetVal ==
    \E dir \in {-1, 0, 1} :
        LET m == setval(Machine, "output", "level", dir, OpenFails)
        IN  /\ dir = 1 => last.ninc < MaxInc
            /\ Store(m)
            /\ last' = [op |-> "setval", dir |-> dir, sent |-> m.sent,
                        ninc |-> IF dir = 1 /\ last.ninc >= 0
                                 THEN last.ninc + 1 ELSE -1]
            /\ UNCHANGED <<key_list, silent, xkb, xkeymap, pc, iter, universe>>

NumOnVal ==
    \E v \in NotifyVals(ctl_list[1].desc.maxval) :
        /\ ctl_list' = onval(ctl_list, 0, v)
        /\ last' = [op |-> "onval", dir |-> 0, sent |-> <<>>, ninc |-> -1]
        /\ UNCHANGED <<key_list, ctl_hdl, ctl_maxfds, maxfds, beep_pending,
                       silent, xkb, xkeymap, pc, iter, universe>>

NextNum == NumSetVal \/ NumOnVal

SpecNum == InitNum /\ [][NextNum]_vars

\* ceil(m / n), as the least s with s * n >= m
CeilDiv(m, n) == CHOOSE s \in 0..m : s * n >= m /\ \A t \in 0..(s - 1) : t * n < m

Min(a, b) == IF a < b THEN a ELSE b

Max(a, b) == IF a > b THEN a ELSE b

NumMax == ctl_list[1].desc.maxval

NumVal == ctl_list[1].val

\* C4: for a Numeric control with maxValue > 1, Increase and Decrease move
\* the value by ceil(maxValue / 20) and clamp it to [0, maxValue] (Decrease
\* from 0 stays at 0); so after k Increases from 0 the value is
\* min(maxValue, k * ceil(maxValue / 20)), which never exceeds maxValue, is
\* maxValue from the 20th Increase on, and for maxValue = 100 is 5 after the
\* first and 100 after the 20th.
C4_Quantization ==
    /\ [][ (last'.op = "setval" /\ NumMax > 1)
              => /\ last'.dir = 1 =>
                        NumVal' = Min(NumMax, NumVal + CeilDiv(NumMax, 20))
                 /\ last'.dir = -1 =>
                        NumVal' = Max(0, NumVal - CeilDiv(NumMax, 20))
         ]_vars
    /\ [](NumMax > 1 /\ last.ninc >= 0 =>
              /\ NumVal = Min(NumMax, last.ninc * CeilDiv(NumMax, 20))
              /\ NumVal <= NumMax
              /\ last.ninc >= 20 => NumVal = NumMax
              /\ (NumMax = 100 /\ last.ninc = 1) => NumVal = 5
              /\ (NumMax = 100 /\ last.ninc < 20) => NumVal < 100)

\* The twentieth Increase from 0 has brought a control of range 0..100 to
\* exactly 100, and pushed that value.
C4_Witness ==
    /\ NumMax = 100
    /\ last.op = "setval" /\ last.dir = 1 /\ last.ninc = 20
    /\ NumVal = 100
    /\ last.sent = <<[addr |-> 0, val |-> 100, hdl |-> TRUE]>>

\* C5: for a Numeric or Switch control with maxValue = 1, every Cycle edit
\* replaces the value by 1 - current, whatever edits and value notifications
\* came before, and the value is never anything but 0 or 1.
C5_BooleanFlip ==
    /\ [][ (last'.op = "setval" /\ last'.dir = 0 /\ NumMax = 1)
              => /\ NumVal' = 1 - NumVal
                 /\ last'.sent = <<[addr |-> 0, val |-> 1 - NumVal, hdl |-> TRUE]>>
         ]_vars
    /\ [](NumMax = 1 => NumVal \in {0, 1})

\* A Cycle has toggled a Switch from 1 back to 0.
C5_Witness ==
    /\ NumMax = 1
    /\ ctl_list[1].desc.type = SIOCTL_SW
    /\ last.op = "setval" /\ last.dir = 0
    /\ last.sent = <<[addr |-> 0, val |-> 0, hdl |-> TRUE]>>
    /\ NumVal = 0

-----------------------------------------------------------------------------
(* The key-binding table: struct key, add_key *)

\* a binding as add_key leaves it: code and map are set by grab_keys
Key(modmask, sym, name, func, dir) ==
    [modmask |-> modmask, sym |-> sym, code |-> 0, map |-> <<>>,
     name |-> name, func |-> func, dir |-> dir]

\* strcmp(key->name, name) == 0 && strcmp(key->func, func) == 0 &&
\* key->dir == dir
SameFunction_NoDir(key, name, func, dir) ==
    strcmp(key.name, name) = 0 /\ strcmp(key.func, func) = 0

SameFunction(key, name, func, dir) ==
    strcmp(key.name, name) = 0 /\ strcmp(key.func, func) = 0 /\ key.dir = dir

\* the deletion loop of add_key
RECURSIVE DeleteFunction(_, _, _, _)
DeleteFunction(list, name, func, dir) ==
    IF list = <<>> THEN <<>>
    ELSE IF SameFunction(Head(list), name, func, dir)
         THEN DeleteFunction(Tail(list), name, func, dir)
         ELSE <<Head(list)>> \o DeleteFunction(Tail(list), name, func, dir)

add_key(list, modmask, sym, name, func, dir) ==
    Append(DeleteFunction(list, name, func, dir), Key(modmask, sym, name, func, dir))

\* the largest number of add_key calls made
MaxBinds == 3

\* the functions bound by the default bindings
BindTargets ==
    { <<"output", "level", 1>>, <<"output", "level", -1>>,
      <<"output", "mute", 0>>, <<"server", "device", 0>> }

BindMasks == {BitOr(ControlMask, Mod1Mask), Mod4Mask}

BindSyms == {"plus", "minus"}

InitKeys ==
    /\ ctl_list = <<>>
    /\ key_list = <<>>
    /\ ctl_hdl = FALSE
    /\ ctl_maxfds = 0
    /\ maxfds = 0
    /\ beep_pending = 0
    /\ silent = 0
    /\ xkb = 0
    /\ xkeymap = <<>>
    /\ pc = "args"
    /\ last = [op |-> "init", n |-> 0]
    /\ iter = IterZero
    /\ universe = "none"

AddKey ==
    \E modmask \in BindMasks, sym \in BindSyms, t \in BindTargets :
        /\ pc = "args"
        /\ last.n < MaxBinds
        /\ key_list' = add_key(key_list, modmask, sym, t[1], t[2], t[3])
        /\ last' = [op |-> "add_key", n |-> last.n + 1, modmask |-> modmask,
                    sym |-> sym, name |-> t[1], func |-> t[2], dir |-> t[3]]
        /\ UNCHANGED <<ctl_list, ctl_hdl, ctl_maxfds, maxfds, beep_pending,
                       silent, xkb, xkeymap, pc, iter, universe>>

NextKeys == AddKey

SpecKeys == InitKeys /\ [][NextKeys]_vars

Triple(key) == <<key.name, key.func, key.dir>>

\* the bindings of list whose triple is not t, in order
RECURSIVE Others(_, _)
Others(list, t) ==
    IF list = <<>> THEN <<>>
    ELSE (IF Triple(Head(list)) = t THEN <<>> ELSE <<Head(list)>>)
             \o Others(Tail(list), t)

\* C7: after any sequence of bind operations the table holds at most one
\* binding per (targetName, targetFunc, direction); after a bind the binding
\* of its triple carries the modifier mask and keysym just given, and the
\* bindings of the other triples are the ones held before, unchanged and in
\* the same order.
C7_BindingOverride ==
    /\ [](\A i, j \in 1..Len(key_list) :
              Triple(key_list[i]) = Triple(key_list[j]) => i = j)
    /\ [](last.op = "add_key" =>
              \E i \in 1..Len(key_list) :
                  /\ Triple(key_list[i]) = <<last.name, last.func, last.dir>>
                  /\ key_list[i].modmask = last.modmask
                  /\ key_list[i].sym = last.sym)
    /\ [][ last'.op = "add_key" =>
              LET t == <<last'.name, last'.func, last'.dir>>
              IN  Others(key_list', t) = Others(key_list, t)
         ]_vars

\* The third bind replaced the binding of output.level Increase while a
\* binding of output.level Decrease, made with another key, stayed.
C7_Witness ==
    /\ last.op = "add_key" /\ last.n = 3
    /\ Len(key_list) = 2
    /\ Triple(key_list[1]) = <<"output", "level", -1>>
    /\ key_list[1].sym = "minus"
    /\ Triple(key_list[2]) = <<"output", "level", 1>>
    /\ key_list[2].sym = "plus"
    /\ key_list[2].modmask = Mod4Mask

-----------------------------------------------------------------------------
(* The X server: keyboard mappings, grab_keys, ungrab_keys *)

\* A keyboard mapping gives, for each key code, the symbols in the unshifted
\* and the shifted column.
KeymapUS ==
    (19 :> <<"0", "parenright">>) @@ (20 :> <<"minus", "underscore">>) @@
    (21 :> <<"equal", "plus">>) @@ (23 :> <<"Tab", "ISO_Left_Tab">>)

KeymapDE ==
    (19 :> <<"0", "equal">>) @@ (20 :> <<"plus", "asterisk">>) @@
    (21 :> <<"minus", "underscore">>) @@ (23 :> <<"Tab", "ISO_Left_Tab">>)

Keymaps == {KeymapUS, KeymapDE}

KeyCodes == DOMAIN KeymapUS

\* XKeysymToKeycode(dpy, sym): the lowest key code with sym in a column, 0
\* if there is none
XKeysymToKeycode(keymap, sym) ==
    LET C == {c \in DOMAIN keymap : \E k \in 1..Len(keymap[c]) : keymap[c][k] = sym}
    IN  IF C = {} THEN 0 ELSE CHOOSE c \in C : \A d \in C : c <= d

\* XGetKeyboardMapping(dpy, code, 1, &nret)
XGetKeyboardMapping(keymap, code) ==
    IF code \in DOMAIN keymap THEN keymap[code] ELSE <<>>

\* a binding left as it is
GrabKey_Stale(keymap, key) == key

\* the body of the loop of grab_keys, for one binding
GrabKey(keymap, key) ==
    LET code == XKeysymToKeycode(keymap, key.sym)
    IN  [key EXCEPT !.code = code, !.map = XGetKeyboardMapping(keymap, code)]

grab_keys(list, keymap) == [k \in 1..Len(list) |-> GrabKey(keymap, list[k])]

\* XFree(key->map), for every binding
ungrab_keys(list) == [k \in 1..Len(list) |-> [list[k] EXCEPT !.map = <<>>]]

\* The requests grab_keys sends for the bindings of list, in order: the
\* XGrabKey calls of a binding (one for each state of GrabbedStates and
\* each screen) as one entry; none from the binding on whose symbol table
\* has ShiftMask entries or fewer, where grab_keys exits.
RECURSIVE grab_reqs(_, _)
grab_reqs(list, keymap) ==
    IF list = <<>> THEN <<>>
    ELSE LET key == GrabKey(keymap, Head(list))
         IN  IF Len(key.map) <= ShiftMask THEN <<>>
             ELSE <<[req |-> "XGrabKey", code |-> key.code,
                     modmask |-> key.modmask]>>
                      \o grab_reqs(Tail(list), keymap)

\* the request of ungrab_keys: XUngrabKey(dpy, AnyKey, AnyModifier, root)
ungrab_reqs(list) == <<[req |-> "XUngrabKey", code |-> 0, modmask |-> 0]>>

\* the modifier combinations grab_keys grabs for a binding
GrabbedStates(key) == {i \in 0..255 : BitAnd(i, MODMASK) = key.modmask}

-----------------------------------------------------------------------------
(* main: the default bindings and the event loop *)

DefaultBindings ==
    add_key(add_key(add_key(add_key(<<>>,
        BitOr(ControlMask, Mod1Mask), "plus", "output", "level", 1),
        BitOr(ControlMask, Mod1Mask), "minus", "output", "level", -1),
        BitOr(ControlMask, Mod1Mask), "0", "output", "mute", 0),
        BitOr(ControlMask, Mod1Mask), "Tab", "server", "device", 0)

\* -b Control+Mod1+plus:output.level+ -b Control+Mod1+plus:server.device!
\* -b Tab:output.level-
\* two bindings on one key, and a binding without modifiers
CustomBindings ==
    add_key(add_key(add_key(<<>>,
        BitOr(ControlMask, Mod1Mask), "plus", "output", "level", 1),
        BitOr(ControlMask, Mod1Mask), "plus", "server", "device", 0),
        0, "Tab", "output", "level", -1)

\* the modifier test on every bit of the event's state
ModMatch_AllBits(key, state) == key.modmask = state

\* key->modmask == (xev.xkey.state & MODMASK)
ModMatch(key, state) == key.modmask = BitAnd(state, MODMASK)

KeyMatch(key, keycode, state) ==
    /\ keycode = key.code
    /\ key.map[BitAnd(state, ShiftMask) + 1] = key.sym
    /\ ModMatch(key, state)

\* the bindings the key loop fires, as positions of key_list in order
Fired(list, keycode, state) ==
    SelectSeq([k \in 1..Len(list) |-> k],
              LAMBDA k : KeyMatch(list[k], keycode, state))

\* the key loop of main: setval for every binding of fired, in order; an
\* attempt to open the transport takes its outcome from outs
RECURSIVE KeyLoop(_, _, _)
KeyLoop(m, fired, outs) ==
    IF fired = <<>> THEN m
    ELSE LET key == key_list[Head(fired)]
             opening == ~m.ctl_hdl
             out == IF opening /\ outs # <<>> THEN Head(outs) ELSE OpenFails
         IN  KeyLoop(setval(m, key.name, key.func, key.dir, out), Tail(fired),
                     IF opening /\ outs # <<>> THEN Tail(outs) ELSE outs)

\* the largest number of X events drained in one iteration
MaxEvents == 2

\* what sioctl_nfds may return: the largest count ctl_open accepts next to
\* the display's descriptor, and the smallest it rejects
NfdsSet == {MAXFDS - 2, MAXFDS - 1}

\* the dump sioctl_ondesc delivers on open: every control of the device,
\* the level at 60 ("e2e") or 1, the first option of the selector active
DumpVal(a) == IF universe = "e2e" THEN 60 ELSE IF a <= 1 THEN 1 ELSE 0

DevDump ==
    [k \in 1..Cardinality(DevAddrs) |-> [desc |-> DevShape(k - 1), val |-> DumpVal(k - 1)]]

OpenOutcomes ==
    {OpenFails} \cup
    {[ok |-> TRUE, nfds |-> n, dump |-> d] : n \in NfdsSet, d \in {<<>>, DevDump}}

\* the outcomes of the n attempts one event can make
OpenSeqs(n) ==
    IF n = 0 THEN {<<>>}
    ELSE IF n = 1 THEN {<<o>> : o \in OpenOutcomes}
    ELSE {<<o1, o2>> : o1 \in OpenOutcomes, o2 \in OpenOutcomes}

\* the modifier states of the key events tried
EvStates ==
    { 0,
      BitOr(ControlMask, Mod1Mask),
      BitOr(ShiftMask, BitOr(ControlMask, Mod1Mask)),
      BitOr(LockMask, BitOr(ControlMask, Mod1Mask)),
      BitOr(Mod2Mask, BitOr(ShiftMask, BitOr(ControlMask, Mod1Mask))),
      Mod4Mask,
      BitOr(Mod4Mask, BitOr(ControlMask, Mod1Mask)) }

\* a mapping with one symbol per key code, on which grab_keys gives up
KeymapOne ==
    (19 :> <<"0">>) @@ (20 :> <<"plus">>) @@ (21 :> <<"minus">>) @@ (23 :> <<"Tab">>)

\* grab_keys exits when a binding gets a symbol table of ShiftMask entries
\* or fewer
GrabFails(list, keymap) ==
    \E k \in 1..Len(list) :
        Len(XGetKeyboardMapping(keymap, XKeysymToKeycode(keymap, list[k].sym)))
            <= ShiftMask

InitMain(bindings, univ) ==
    /\ ctl_list = <<>>
    /\ xkeymap \in Keymaps
    /\ key_list = grab_keys(bindings, xkeymap)
    /\ ctl_hdl = FALSE
    /\ ctl_maxfds = 0
    /\ maxfds = 1
    /\ beep_pending = 0
    /\ pc = "drain"
    /\ last = [op |-> "init"]
    /\ iter = IterZero
    /\ universe = univ

Init ==
    /\ silent \in {0, 1}
    /\ xkb \in {0, 1}
    /\ InitMain(CustomBindings, "dev")

\* while (XPending(dpy)): a KeyPress event
KeyPress ==
    /\ pc = "drain"
    /\ iter.nev < MaxEvents
    /\ \E keycode \in KeyCodes, state \in EvStates :
          LET fired == Fired(key_list, keycode, state)
          IN  \E outs \in OpenSeqs(IF ctl_hdl THEN 0 ELSE Min(Len(fired), 2)) :
                  LET m == KeyLoop(Machine, fired, outs)
                  IN  /\ Store(m)
                      /\ last' = [op |-> "KeyPress", keycode |-> keycode,
                                  state |-> state, fired |-> fired,
                                  sent |-> m.sent, opens |-> m.opens,
                                  closes |-> m.closes]
                      /\ iter' = [iter EXCEPT !.nev = @ + 1,
                                              !.nchg = @ + (IF m.changed THEN 1 ELSE 0)]
    /\ UNCHANGED <<key_list, silent, xkb, xkeymap, pc, universe>>

\* a MappingNotify event: for a keyboard remapping, ungrab_keys then
\* grab_keys on the new mapping, which exits if the mapping has one column
\* or another client holds a key
MappingNotify ==
    /\ pc = "drain"
    /\ iter.nev < MaxEvents
    /\ \E request \in {"MappingKeyboard", "MappingPointer"},
          keymap \in Keymaps \cup {KeymapOne}, conflict \in BOOLEAN :
          /\ request # "MappingKeyboard" => (keymap = xkeymap /\ ~conflict)
          /\ xkeymap' = keymap
          /\ IF request # "MappingKeyboard"
             THEN key_list' = key_list /\ pc' = pc
             ELSE /\ key_list' = grab_keys(ungrab_keys(key_list), keymap)
                  /\ pc' = IF conflict \/ GrabFails(key_list, keymap)
                           THEN "fatal" ELSE pc
          /\ last' = [op |-> "MappingNotify", request |-> request,
                      xreq |-> IF request # "MappingKeyboard" THEN <<>>
                               ELSE ungrab_reqs(key_list)
                                        \o grab_reqs(ungrab_keys(key_list), keymap)]
    /\ iter' = [iter EXCEPT !.nev = @ + 1]
    /\ UNCHANGED <<ctl_list, ctl_hdl, ctl_maxfds, maxfds, beep_pending,
                   silent, xkb, universe>>

\* an XkbBellNotify event, delivered when bell capture is on
BellNotify ==
    /\ pc = "drain"
    /\ iter.nev < MaxEvents
    /\ xkb # 0
    /\ beep_pending' = 1
    /\ last' = [op |-> "BellNotify"]
    /\ iter' = [iter EXCEPT !.nev = @ + 1]
    /\ UNCHANGED <<ctl_list, key_list, ctl_hdl, ctl_maxfds, maxfds,
                   silent, xkb, xkeymap, pc, universe>>

\* an event of any other type
OtherEvent ==
    /\ pc = "drain"
    /\ iter.nev < MaxEvents
    /\ last' = [op |-> "OtherEvent"]
    /\ iter' = [iter EXCEPT !.nev = @ + 1]
    /\ UNCHANGED <<ctl_list, key_list, ctl_hdl, ctl_maxfds, maxfds, beep_pending,
                   silent, xkb, xkeymap, pc, universe>>

\* sioctl_pollfd(ctl_hdl, pfds, 0) fills between one entry and as many as
\* sioctl_nfds announced
PollFds(n) == {1, n}

\* XPending(dpy) is 0: play the pending beep, build the poll set (the
\* transport's entries if it is open, then the display's), poll
DrainDone ==
    /\ pc = "drain"
    /\ beep_pending' = 0
    /\ iter' = [iter EXCEPT !.nbeep = @ + (IF beep_pending # 0 THEN 1 ELSE 0)]
    /\ pc' = "wait"
    /\ \E ctl_nfds \in (IF ctl_hdl THEN PollFds(ctl_maxfds) ELSE {0}) :
           last' = [op |-> "DrainDone", nfds |-> ctl_nfds + 1]
    /\ UNCHANGED <<ctl_list, key_list, ctl_hdl, ctl_maxfds, maxfds,
                   silent, xkb, xkeymap, universe>>

\* sioctl_revents calls ondesc
TransportOnDesc ==
    /\ pc = "wait"
    /\ ctl_hdl
    /\ \E n \in Announce : ctl_list' = ondesc(ctl_list, n.desc, n.val)
    /\ last' = [op |-> "ondesc"]
    /\ UNCHANGED <<key_list, ctl_hdl, ctl_maxfds, maxfds, beep_pending,
                   silent, xkb, xkeymap, pc, iter, universe>>

\* sioctl_revents calls onval
TransportOnVal ==
    /\ pc = "wait"
    /\ ctl_hdl
    /\ \E a \in DevAddrs : \E v \in DevVals(a) : ctl_list' = onval(ctl_list, a, v)
    /\ last' = [op |-> "onval"]
    /\ UNCHANGED <<key_list, ctl_hdl, ctl_maxfds, maxfds, beep_pending,
                   silent, xkb, xkeymap, pc, iter, universe>>

\* the code after the loop: ungrab_keys, XCloseDisplay, ctl_close
Shutdown(m) ==
    LET m1 == [m EXCEPT !.maxfds = @ - 1]
    IN  IF m1.ctl_hdl THEN ctl_close(m1) ELSE m1

\* the loop is left only when the display hung up
AfterPoll_Stay(xhup) == "drain"

\* if (pfds[nfds].revents & POLLHUP) break;
AfterPoll(xhup) == IF xhup THEN "done" ELSE "drain"

\* poll returns: the hang-up tests at the end of the loop body, and what
\* follows the loop when the display hung up
PollReturn ==
    /\ pc = "wait"
    /\ \E ctlhup \in BOOLEAN, xhup \in BOOLEAN :
          LET m1 == IF ctl_hdl /\ ctlhup THEN ctl_close(Machine) ELSE Machine
              m2 == IF xhup THEN Shutdown(m1) ELSE m1
          IN  /\ ctlhup => ctl_hdl
              /\ Store(m2)
              /\ pc' = AfterPoll(xhup)
              /\ key_list' = IF xhup THEN <<>> ELSE key_list
              /\ last' = [op |-> "PollReturn", ctlhup |-> ctlhup, xhup |-> xhup,
                          closes |-> m2.closes,
                          xreq |-> IF xhup THEN ungrab_reqs(key_list) ELSE <<>>]
    /\ iter' = IterZero
    /\ UNCHANGED <<silent, xkb, xkeymap, universe>>

Next ==
    \/ KeyPress
    \/ MappingNotify
    \/ BellNotify
    \/ OtherEvent
    \/ DrainDone
    \/ TransportOnDesc
    \/ TransportOnVal
    \/ PollReturn

Spec == Init /\ [][Next]_vars

\* The program started without -b and -s, with or without -a, on a device
\* with one control, output.level with maxval 127.
InitE2E ==
    /\ silent = 0
    /\ xkb \in {0, 1}
    /\ InitMain(DefaultBindings, "e2e")

SpecE2E == InitE2E /\ [][Next]_vars

----------------------------------------------------------------------------
\* End to end

\* the registry holds exactly the control output.level, maxval 127, at 60
C1_Registry ==
    /\ Len(ctl_list) = 1
    /\ ctl_list[1].desc.group = ""
    /\ ctl_list[1].desc.node0.name = "output"
    /\ ctl_list[1].desc.func = "level"
    /\ ctl_list[1].desc.type = SIOCTL_NUM
    /\ ctl_list[1].desc.maxval = 127
    /\ ctl_list[1].val = 60

\* the step is a key press that fired the binding of Ctrl+Alt+plus and no
\* other, and the transport is connected when the edit is made
C1_PlusPressed ==
    /\ last'.op = "KeyPress"
    /\ Len(last'.fired) = 1
    /\ key_list[last'.fired[1]].sym = "plus"
    /\ key_list[last'.fired[1]].modmask = ControlMask + Mod1Mask
    /\ ctl_hdl'

C1_KeyStep ==
    (C1_Registry /\ C1_PlusPressed) =>
        /\ ctl_list'[1].val = 67
        /\ last'.sent = <<[addr |-> ctl_list[1].desc.addr, val |-> 67, hdl |-> TRUE]>>
        /\ beep_pending' = 1

C1_Flush ==
    (pc = "drain" /\ pc' = "wait" /\ iter.nchg >= 1) =>
        (iter'.nbeep = 1 /\ beep_pending' = 0)

\* C1: with the default bindings and the registry holding output.level
\* (maxval 127) at 60, a key press matching Ctrl+Alt+plus made with the
\* transport connected leaves the control at 67, sends exactly one command
\* (the control's address, 67), and the iteration plays exactly one beep
\* before it blocks in poll.
C1_EndToEnd == [][C1_KeyStep /\ C1_Flush]_vars

C1_Witness ==
    /\ universe = "e2e"
    /\ last.op = "KeyPress"
    /\ Len(last.fired) = 1
    /\ key_list[last.fired[1]].sym = "plus"
    /\ last.opens = 0
    /\ last.sent = <<[addr |-> 0, val |-> 67, hdl |-> TRUE]>>
    /\ Len(ctl_list) = 1
    /\ ctl_list[1].val = 67
    /\ beep_pending = 1

----------------------------------------------------------------------------
\* Key matching

HasBit(state, b) == (state \div b) % 2 = 1

\* the bits of state within {Control, Mod1, Mod4}
Restricted(state) ==
    (IF HasBit(state, ControlMask) THEN ControlMask ELSE 0)
    + (IF HasBit(state, Mod1Mask) THEN Mod1Mask ELSE 0)
    + (IF HasBit(state, Mod4Mask) THEN Mod4Mask ELSE 0)

\* the symbol the server's mapping gives the key code under the Shift bit
\* of state
ShiftedSym(keycode, state) ==
    xkeymap[keycode][IF HasBit(state, ShiftMask) THEN 2 ELSE 1]

SeqRange(seq) == {seq[k] : k \in 1..Len(seq)}

\* bindings on the key whose mask equals the restricted bits
MaskMatches(keycode, state) ==
    {k \in 1..Len(key_list) :
        /\ key_list[k].code = keycode
        /\ key_list[k].modmask = Restricted(state)}

\* of these, the bindings whose keysym the Shift bit selects
SymMatches(keycode, state) ==
    {k \in MaskMatches(keycode, state) :
        key_list[k].sym = ShiftedSym(keycode, state)}

\* the two states agree on Shift, Control, Mod1 and Mod4
SameButLocks(s1, s2) ==
    /\ Restricted(s1) = Restricted(s2)
    /\ HasBit(s1, ShiftMask) = HasBit(s2, ShiftMask)

\* C8 as stated: a binding fires for a key press on its key exactly when
\* its mask equals the event's modifier bits restricted to {Control, Mod1,
\* Mod4}; events on one key that differ only in other bits, Shift included,
\* fire the same bindings.
C8_IgnoresBitsOutsideSet ==
    /\ last.op = "KeyPress" =>
           SeqRange(last.fired) = MaskMatches(last.keycode, last.state)
    /\ pc = "drain" =>
           \A keycode \in KeyCodes, s1 \in EvStates, s2 \in EvStates :
               Restricted(s1) = Restricted(s2) =>
                   Fired(key_list, keycode, s1) = Fired(key_list, keycode, s2)

\* C8, amended: a binding fires for a key press on its key exactly when its
\* mask equals the event's modifier bits restricted to {Control, Mod1, Mod4}
\* and its keysym is the one the event's Shift bit selects for the key;
\* events on one key that agree on Shift and differ only in bits outside
\* {Shift, Control, Mod1, Mod4} fire the same bindings.
C8_IgnoresLocksNotShift ==
    /\ last.op = "KeyPress" =>
           SeqRange(last.fired) = SymMatches(last.keycode, last.state)
    /\ pc = "drain" =>
           \A keycode \in KeyCodes, s1 \in EvStates, s2 \in EvStates :
               SameButLocks(s1, s2) =>
                   Fired(key_list, keycode, s1) = Fired(key_list, keycode, s2)

C8_Witness ==
    /\ last.op = "KeyPress"
    /\ HasBit(last.state, LockMask) \/ HasBit(last.state, Mod2Mask)
    /\ last.fired # <<>>
    /\ last.sent # <<>>

----------------------------------------------------------------------------
\* Feedback

\* C9: the loop never blocks in poll with beep_pending set; with silent
\* and xkb both 0, an iteration has played exactly one beep when it blocks
\* if an edit of the iteration changed a value, and none otherwise, however
\* many key presses it drained.
C9_FeedbackCoalescing ==
    /\ pc = "wait" => beep_pending = 0
    /\ (pc = "wait" /\ silent = 0 /\ xkb = 0) =>
           iter.nbeep = (IF iter.nchg >= 1 THEN 1 ELSE 0)

C9_Witness ==
    /\ pc = "wait"
    /\ silent = 0
    /\ xkb = 0
    /\ iter.nev = 2
    /\ iter.nchg = 2
    /\ iter.nbeep = 1

----------------------------------------------------------------------------
\* Shutdown

C10_Step ==
    /\ pc # "done"
    /\ pc' = "done" => (pc = "wait" /\ last'.op = "PollReturn" /\ last'.xhup)
    /\ last'.op = "PollReturn" => (pc' = "done" <=> last'.xhup)
    /\ (last'.op = "PollReturn" /\ ~last'.xhup) => pc' = "drain"
    /\ last'.op = "KeyPress" => pc' = "drain"

\* C10: the loop is left for the shutdown code by the return of poll that
\* reports the display's hang-up, and by no other step: a hang-up of the
\* transport alone and a key press, whatever its edits and reopen attempts
\* did, leave the loop running; after shutdown there is no further step.
C10_ShutdownOnlyOnDisplayHup == [][C10_Step]_vars

C10_Witness ==
    /\ pc = "done"
    /\ last.op = "PollReturn"
    /\ last.xhup
    /\ last.closes = 1
    /\ key_list = <<>>

----------------------------------------------------------------------------
\* Lazy reconnect

\* the return of poll reported the transport's hang-up
C11_HupStep ==
    (last'.op = "PollReturn" /\ last'.ctlhup) =>
        /\ ~ctl_hdl'
        /\ ctl_list' = <<>>
        /\ last'.closes = 1

\* a key press that fired bindings with the transport unavailable
C11_EditStep ==
    (last'.op = "KeyPress" /\ last'.fired # <<>>) =>
        /\ ctl_hdl => last'.opens = 0
        /\ ~ctl_hdl => (last'.opens >= 1 /\ last'.opens <= Len(last'.fired))
        /\ (~ctl_hdl /\ ~ctl_hdl') =>
               /\ last'.opens = Len(last'.fired)
               /\ last'.sent = <<>>
               /\ iter'.nchg = iter.nchg
               /\ beep_pending' = beep_pending
               /\ \A i \in 1..Len(ctl_list) :
                      \E j \in 1..Len(ctl_list') : ctl_list'[j] = ctl_list[i]
               /\ pc' = "drain"

\* C11: a transport hang-up closes the transport, empties the registry and
\* leaves the handle NULL; while the handle is NULL every setval makes one
\* attempt to open the transport (none when it is open); if every attempt of
\* a key press fails, each of its bindings made one attempt, no control
\* value was changed, no command was sent, beep_pending is as before and the
\* loop goes on.
C11_LazyReconnect == [][C11_HupStep /\ C11_EditStep]_vars

\* Both bindings of a key tried to open the transport and failed, with
\* controls in the registry they would have edited.
C11_Witness ==
    /\ last.op = "KeyPress"
    /\ Len(last.fired) = 2
    /\ last.opens = 2
    /\ ~ctl_hdl
    /\ ctl_list # <<>>
    /\ last.sent = <<>>
    /\ pc = "drain"

----------------------------------------------------------------------------
\* The descriptor budget

\* the step is a key press in which ctl_open rejected the transport for
\* "too many fds": the only sioctl_close a key press makes
C12_Rejected == last'.op = "KeyPress" /\ last'.closes >= 1

\* C12 as stated: when opening the transport would exceed the number of
\* pollable descriptors the process exits with status 1, and the loop does
\* not go on.
C12_TooManyFdsIsFatal == [][C12_Rejected => pc' = "fatal"]_vars

-----------------------------------------------------------------------------
(* The edit specification: setval, called directly and through the key     *)
(* loop, on every registry a mixer of six controls can leave; one call     *)
(* per iteration, then the beep flush.                                     *)

\* the controls of the mixer, by address: a level, a selector of two
\* options, a level inside the group "app", and two numeric controls with
\* the selector's name and func: of range 0..2 in the selector's unit, of
\* range 0..1 in a second unit
EditShape(a) ==
    IF a = 0 THEN Desc(a, "", "output", 0, SIOCTL_NUM, "level", "", 0, 2)
    ELSE IF a = 1 THEN Desc(a, "", "server", 0, SIOCTL_SEL, "device", "0", 0, 1)
    ELSE IF a = 2 THEN Desc(a, "", "server", 0, SIOCTL_SEL, "device", "1", 0, 1)
    ELSE IF a = 3 THEN Desc(a, "app", "output", 0, SIOCTL_NUM, "level", "", 0, 2)
    ELSE IF a = 4 THEN Desc(a, "", "server", 0, SIOCTL_NUM, "device", "", 0, 2)
    ELSE Desc(a, "", "server", 1, SIOCTL_NUM, "device", "", 0, 1)

EditAddrs == 0..5

\* the dump of the controls f gives a value; f[a] = -1 leaves a out
EditDump(f) ==
    SelectSeq([k \in 1..Cardinality(EditAddrs) |->
                  [desc |-> EditShape(k - 1), val |-> f[k - 1]]],
              LAMBDA n : n.val >= 0)

InitEdit ==
    /\ \E f \in [EditAddrs -> -1..2] :
          /\ \A a \in EditAddrs : f[a] <= EditShape(a).maxval
          /\ ctl_list = ApplyDump(<<>>, EditDump(f))
    /\ xkeymap = KeymapUS
    /\ key_list = grab_keys(DefaultBindings, xkeymap)
    /\ ctl_hdl = TRUE
    /\ ctl_maxfds = 1
    /\ maxfds = 2
    /\ beep_pending = 0
    /\ silent = 0
    /\ xkb = 0
    /\ pc = "drain"
    /\ last = [op |-> "init"]
    /\ iter = IterZero
    /\ universe = "edit"

\* setval(name, func, dir)
EditSetVal ==
    \E name \in {"output", "server"}, func \in {"level", "device"},
       dir \in {-1, 0, 1} :
        LET m == setval(Machine, name, func, dir, OpenFails)
        IN  /\ pc = "drain"
            /\ Store(m)
            /\ pc' = "flush"
            /\ last' = [op |-> "setval", name |-> name, func |-> func,
                        dir |-> dir, sent |-> m.sent]
            /\ UNCHANGED <<key_list, silent, xkb, xkeymap, iter, universe>>

\* a KeyPress event, through the key loop of main
EditKeyPress ==
    \E keycode \in KeyCodes, state \in EvStates :
        LET fired == Fired(key_list, keycode, state)
            m == KeyLoop(Machine, fired, <<>>)
        IN  /\ pc = "drain"
            /\ Store(m)
            /\ pc' = "flush"
            /\ last' = [op |-> "KeyPress", fired |-> fired, sent |-> m.sent]
            /\ UNCHANGED <<key_list, silent, xkb, xkeymap, iter, universe>>

\* the beep flush of the main loop
EditFlush ==
    /\ pc = "flush"
    /\ beep_pending' = 0
    /\ pc' = "drain"
    /\ last' = [op |-> "flush"]
    /\ UNCHANGED <<ctl_list, key_list, ctl_hdl, ctl_maxfds, maxfds,
                   silent, xkb, xkeymap, iter, universe>>

NextEdit == EditSetVal \/ EditKeyPress \/ EditFlush

SpecEdit == InitEdit /\ [][NextEdit]_vars

----------------------------------------------------------------------------
\* Members of a control group

\* the members of the control group of setval(name, func, ...)
Members(list, name, func) ==
    {i \in 1..Len(list) :
        /\ list[i].desc.group = ""
        /\ list[i].desc.node0.name = name
        /\ list[i].desc.func = func}

\* the value the edit rule gives a numeric or switch control
NumRule(c, dir) ==
    IF c.desc.maxval > 1 /\ dir # 0
    THEN Max(0, Min(c.desc.maxval, c.val + dir * CeilDiv(c.desc.maxval, 20)))
    ELSE IF c.desc.maxval = 1 /\ dir = 0 THEN 1 - c.val
    ELSE c.val

\* the run of i: the consecutive entries around i that share group, name,
\* func and unit with it
RunOf(list, i) ==
    {j \in 1..Len(list) :
        \A k \in Min(i, j)..Max(i, j) : SameUnitGroup(list[i].desc, list[k].desc)}

RunHead(list, i) == CHOOSE j \in RunOf(list, i) : \A k \in RunOf(list, i) : j <= k

\* the selector entries that share group, name, func and unit with i
SelUnitGroup(list, i) == UnitGroup(list, i) \cap Sels(list)

\* the selector rule of Cycle for the entries G: with one active entry
\* among two or more, the next one becomes the active one
SelRule(G, dir) ==
    (dir = 0 /\ Cardinality(G) >= 2 /\ OneActive(ctl_list, G)) => CycleAdvances(G)

\* C13 as stated: in setval(name, func, dir) every member of the control
\* group (group "", name, func), whatever its kind or unit, gets its edit
\* rule applied, whatever the other members are.
C13_EveryMemberEdited ==
    [][ last'.op = "setval" =>
          \A i \in Members(ctl_list, last'.name, last'.func) :
              IF IsSel(ctl_list, i)
              THEN SelRule(SelUnitGroup(ctl_list, i), last'.dir)
              ELSE ctl_list'[i].val = NumRule(ctl_list[i], last'.dir)
      ]_vars

\* What setval does instead of C13: it edits the members run by run, a
\* run being consecutive entries sharing group, name, func and unit: the
\* first entry of every run gets its rule, a selector at the head of a run
\* being cycled with the selector entries of the run; the entries that
\* follow an entry of another kind in its run are skipped and keep their
\* value.
C13_RunHeadsEdited ==
    [][ last'.op = "setval" =>
          \A i \in Members(ctl_list, last'.name, last'.func) :
              LET h == RunHead(ctl_list, i)
              IN  IF IsSel(ctl_list, h)
                  THEN SelRule(RunOf(ctl_list, i), last'.dir)
                  ELSE IF i = h
                  THEN ctl_list'[i].val = NumRule(ctl_list[i], last'.dir)
                  ELSE ctl_list'[i].val = ctl_list[i].val
      ]_vars

\* A Cycle of server.device with all four members in the registry: the
\* control of range 0..2 changed nothing, and the switch-like control of the
\* second unit and the selector were both edited in the same call.
C13_Witness ==
    /\ last.op = "setval"
    /\ last.name = "server" /\ last.func = "device" /\ last.dir = 0
    /\ Cardinality(Members(ctl_list, "server", "device")) = 4
    /\ Len(last.sent) = 2
    /\ \E k \in 1..2 : last.sent[k].addr \in {1, 2}

----------------------------------------------------------------------------
\* Edits that are no-ops

\* the step changed no value, sent no command, requested no beep and ended
\* nothing
C14_Nothing ==
    /\ ctl_list' = ctl_list
    /\ last'.sent = <<>>
    /\ beep_pending' = beep_pending
    /\ pc' \notin {"done", "fatal"}

\* the cases of setval(name, func, dir) on the members M that are no-ops
C14_NoOpCase(M, dir) ==
    \/ dir # 0 /\ M \subseteq Sels(ctl_list)
    \/ dir = 0 /\ \A i \in M : ~IsSel(ctl_list, i) /\ ctl_list[i].desc.maxval > 1
    \/ dir # 0 /\ \A i \in M : ctl_list[i].desc.maxval = 1
    \/ dir = 1 /\ \A i \in M :
           IsSel(ctl_list, i) \/ ctl_list[i].val = ctl_list[i].desc.maxval
    \/ dir = -1 /\ \A i \in M : IsSel(ctl_list, i) \/ ctl_list[i].val = 0
    \/ dir = 0 /\ M \subseteq Sels(ctl_list) /\ Cardinality(M) = 1
    \/ dir = 0 /\ M \subseteq Sels(ctl_list) /\ \A i \in M : ctl_list[i].val = 0

\* C14: Increase or Decrease of a selector, Cycle of a numeric control with
\* maxval > 1, Increase or Decrease of a control with maxval 1, Increase at
\* maxval, Decrease at 0, Cycle of a selector with one entry, Cycle of a
\* selector with no entry at 1, and a key press that fires no binding
\* change no value, send no command, request no beep and end nothing.
C14_NoOpEdits ==
    [][ /\ last'.op = "setval" =>
              (C14_NoOpCase(Members(ctl_list, last'.name, last'.func), last'.dir)
                   => C14_Nothing)
        /\ (last'.op = "KeyPress" /\ last'.fired = <<>>) => C14_Nothing
      ]_vars

\* A Cycle of the selector server.device, alone in its control group with
\* both entries at 0, left them at 0 and sent nothing.
C14_Witness ==
    /\ last.op = "setval"
    /\ last.name = "server" /\ last.func = "device" /\ last.dir = 0
    /\ Members(ctl_list, "server", "device") \subseteq Sels(ctl_list)
    /\ Cardinality(Members(ctl_list, "server", "device")) = 2
    /\ \A i \in Members(ctl_list, "server", "device") : ctl_list[i].val = 0
    /\ last.sent = <<>>
    /\ beep_pending = 0

----------------------------------------------------------------------------
\* Commands to the transport

\* the commands of the step for address a
CmdsFor(a) == {k \in 1..Len(last'.sent) : last'.sent[k].addr = a}

\* entry i got another value in the step
Changed(i) == ctl_list'[i].val # ctl_list[i].val

C15_Numeric(i) ==
    /\ Changed(i) =>
           /\ Cardinality(CmdsFor(ctl_list[i].desc.addr)) = 1
           /\ \A k \in CmdsFor(ctl_list[i].desc.addr) :
                  last'.sent[k].val = ctl_list'[i].val
    /\ ~Changed(i) => CmdsFor(ctl_list[i].desc.addr) = {}

C15_Selector(i) ==
    /\ (Changed(i) /\ ctl_list'[i].val = 1) =>
           Cardinality(CmdsFor(ctl_list[i].desc.addr)) = 1
    /\ (Changed(i) /\ ctl_list'[i].val = 0) =>
           CmdsFor(ctl_list[i].desc.addr) = {}
    /\ \A k \in CmdsFor(ctl_list[i].desc.addr) :
           /\ last'.sent[k].val = 1
           /\ ctl_list'[i].val = 1
           /\ \E j \in SelUnitGroup(ctl_list, i) :
                  Changed(j) /\ ctl_list'[j].val = 0

\* C15: in a setval call or a key press on an open transport, a numeric or
\* switch control whose value changed has exactly one command, with its
\* address and new value, and one whose value did not change has none; a
\* selector entry that became 1 has exactly one command, with value 1, the
\* entry that became 0 has none, and a selector entry has a command only
\* when an entry of its selector became 0; every command is for an entry of
\* the registry and goes to the open handle; a step that changes no value
\* sends nothing.
C15_OneCommandPerEdit ==
    [][ last'.op \in {"setval", "KeyPress"} =>
          /\ Len(ctl_list') = Len(ctl_list)
          /\ \A i \in 1..Len(ctl_list) :
                 /\ ctl_list'[i].desc = ctl_list[i].desc
                 /\ IF IsSel(ctl_list, i) THEN C15_Selector(i) ELSE C15_Numeric(i)
          /\ \A k \in 1..Len(last'.sent) :
                 /\ last'.sent[k].hdl
                 /\ \E i \in 1..Len(ctl_list) :
                        ctl_list[i].desc.addr = last'.sent[k].addr
          /\ ctl_list' = ctl_list => last'.sent = <<>>
      ]_vars

\* A Cycle has moved the selector server.device from option 0 to option 1
\* and pushed option 1 alone.
C15_Witness ==
    /\ last.op = "setval"
    /\ last.name = "server" /\ last.func = "device" /\ last.dir = 0
    /\ last.sent = <<[addr |-> 2, val |-> 1, hdl |-> TRUE]>>
    /\ \E i, j \in 1..Len(ctl_list) :
           /\ ctl_list[i].desc.addr = 1 /\ ctl_list[i].val = 0
           /\ ctl_list[j].desc.addr = 2 /\ ctl_list[j].val = 1

----------------------------------------------------------------------------
\* Grabs

\* the entries of a request log with the given request
ReqsOf(xreq, req) == {k \in 1..Len(xreq) : xreq[k].req = req}

\* binding k holds the key code of its symbol in the server's mapping and
\* that key's symbol table, with both columns
FreshBinding(keymap, key) ==
    /\ key.code \in DOMAIN keymap
    /\ \E c \in 1..Len(keymap[key.code]) : keymap[key.code][c] = key.sym
    /\ key.map = keymap[key.code]
    /\ Len(key.map) > ShiftMask

C16_RemapStep ==
    (last'.op = "MappingNotify" /\ last'.request = "MappingKeyboard") =>
        /\ ReqsOf(last'.xreq, "XUngrabKey") = {1}
        /\ pc' # "fatal" =>
               /\ Len(key_list') = Len(key_list)
               /\ Len(last'.xreq) = 1 + Len(key_list')
               /\ \A k \in 1..Len(key_list') :
                      /\ FreshBinding(xkeymap', key_list'[k])
                      /\ key_list'[k].sym = key_list[k].sym
                      /\ last'.xreq[k + 1] =
                             [req |-> "XGrabKey", code |-> key_list'[k].code,
                              modmask |-> key_list'[k].modmask]

C16_OtherSteps ==
    /\ (last'.op = "MappingNotify" /\ last'.request # "MappingKeyboard") =>
           (last'.xreq = <<>> /\ key_list' = key_list)
    /\ last'.op = "PollReturn" =>
           IF last'.xhup
           THEN /\ Len(last'.xreq) = 1
                /\ ReqsOf(last'.xreq, "XUngrabKey") = {1}
           ELSE last'.xreq = <<>>
    /\ last'.op \notin {"MappingNotify", "PollReturn"} => key_list' = key_list

\* C16: a keyboard MappingNotify sends one XUngrabKey, before any XGrabKey,
\* and then, unless grab_keys exits, one grab per binding of the table with
\* the key code and symbol table resolved in the new mapping; other mapping
\* notifications send nothing and leave the bindings alone; the return of
\* poll that ends the loop sends one XUngrabKey and any other return none;
\* and wherever a key press can be matched every binding holds the symbol
\* table of its key in the server's current mapping.
C16_GrabResync ==
    /\ [][C16_RemapStep /\ C16_OtherSteps]_vars
    /\ [](pc = "drain" =>
              \A k \in 1..Len(key_list) : FreshBinding(xkeymap, key_list[k]))

\* A keyboard remapping has been handled: the binding of plus holds key 20
\* of the German mapping, and the log is one ungrab followed by one grab per
\* binding.
C16_Witness ==
    /\ last.op = "MappingNotify"
    /\ last.request = "MappingKeyboard"
    /\ pc = "drain"
    /\ xkeymap = KeymapDE
    /\ Len(last.xreq) = 1 + Len(key_list)
    /\ \E k \in 1..Len(key_list) : key_list[k].sym = "plus" /\ key_list[k].code = 20

-----------------------------------------------------------------------------
(* The address specification: ondesc alone, on an open transport, with     *)
(* what each call was given.                                               *)

InitAddr ==
    /\ ctl_list = <<>>
    /\ key_list = <<>>
    /\ ctl_hdl = TRUE
    /\ ctl_maxfds = 1
    /\ maxfds = 2
    /\ beep_pending = 0
    /\ silent = 0
    /\ xkb = 0
    /\ xkeymap = <<>>
    /\ pc = "wait"
    /\ last = [op |-> "init"]
    /\ iter = IterZero
    /\ universe = "addr"

AddrOnDesc ==
    \E n \in Announce :
        /\ ctl_list' = ondesc(ctl_list, n.desc, n.val)
        /\ last' = [op |-> "ondesc", desc |-> n.desc, val |-> n.val,
                    had |-> n.desc # NULLDESC /\
                            \E k \in 1..Len(ctl_list) :
                                ctl_list[k].desc.addr = n.desc.addr]
        /\ UNCHANGED <<key_list, ctl_hdl, ctl_maxfds, maxfds, beep_pending,
                       silent, xkb, xkeymap, pc, iter, universe>>

NextAddr == AddrOnDesc

SpecAddr == InitAddr /\ [][NextAddr]_vars

----------------------------------------------------------------------------
\* Addresses

\* the entries of list with another address than a, in order
RECURSIVE ButAddr(_, _)
ButAddr(list, a) ==
    IF list = <<>> THEN <<>>
    ELSE (IF Head(list).desc.addr = a THEN <<>> ELSE <<Head(list)>>)
             \o ButAddr(Tail(list), a)

\* the positions of list holding address a
AtAddr(list, a) == {k \in 1..Len(list) : list[k].desc.addr = a}

C17_OnDescStep ==
    last'.op = "ondesc" =>
        IF last'.desc = NULLDESC THEN ctl_list' = ctl_list
        ELSE /\ ButAddr(ctl_list', last'.desc.addr) = ButAddr(ctl_list, last'.desc.addr)
             /\ IF last'.desc.type \in {SIOCTL_NUM, SIOCTL_SW, SIOCTL_SEL}
                THEN /\ Cardinality(AtAddr(ctl_list', last'.desc.addr)) = 1
                     /\ \A k \in AtAddr(ctl_list', last'.desc.addr) :
                            ctl_list'[k] = [desc |-> last'.desc, val |-> last'.val]
                ELSE AtAddr(ctl_list', last'.desc.addr) = {}

\* C17: no two entries of the registry have the same address; after ondesc
\* for a descriptor of a supported type the registry holds exactly one entry
\* with its address, carrying that descriptor and that value; after ondesc
\* for a descriptor of any other type it holds none; the entries with other
\* addresses are as before, in the same order.
C17_AddressesUnique ==
    /\ [](\A i, j \in 1..Len(ctl_list) :
              ctl_list[i].desc.addr = ctl_list[j].desc.addr => i = j)
    /\ [][C17_OnDescStep]_vars

\* A descriptor of an unsupported type arrived for an address that was in
\* the registry: the entry is gone and another one is left.
C17_Witness ==
    /\ last.op = "ondesc"
    /\ last.had
    /\ last.desc.type = SIOCTL_VEC
    /\ Len(ctl_list) >= 1
    /\ AtAddr(ctl_list, last.desc.addr) = {}

----------------------------------------------------------------------------
\* Top-level controls

\* C18: setval(name, func, dir) leaves alone every entry whose group is not
\* empty or whose name or func is not the requested one: its value is as
\* before and no command carries its address, whatever is edited in the
\* same call.
C18_TopLevelOnly ==
    [][ last'.op = "setval" =>
          /\ Len(ctl_list') = Len(ctl_list)
          /\ \A i \in 1..Len(ctl_list) :
                 (\/ ctl_list[i].desc.group # ""
                  \/ ctl_list[i].desc.node0.name # last'.name
                  \/ ctl_list[i].desc.func # last'.func)
                     => /\ ctl_list'[i] = ctl_list[i]
                        /\ CmdsFor(ctl_list[i].desc.addr) = {}
      ]_vars

\* An Increase of output.level has raised the top-level control and pushed
\* it, while the control output.level of the group "app" is still at 0.
C18_Witness ==
    /\ last.op = "setval"
    /\ last.name = "output" /\ last.func = "level" /\ last.dir = 1
    /\ last.sent = <<[addr |-> 0, val |-> 1, hdl |-> TRUE]>>
    /\ \E i \in 1..Len(ctl_list) :
           /\ ctl_list[i].desc.group = "app"
           /\ ctl_list[i].desc.node0.name = "output"
           /\ ctl_list[i].desc.func = "level"
           /\ ctl_list[i].val = 0

----------------------------------------------------------------------------
\* The handle and the registry

\* every command of the step went to an open handle
C19_SentOnHandle ==
    last.op = "KeyPress" => \A k \in 1..Len(last.sent) : last.sent[k].hdl

\* a return of poll closes the transport once if it was open and hung up
\* or the loop ended, and not at all otherwise
C19_ClosedOnce ==
    last'.op = "PollReturn" =>
        last'.closes = (IF ctl_hdl /\ (last'.ctlhup \/ last'.xhup) THEN 1 ELSE 0)

\* C19 as stated: whenever the handle is NULL the registry is empty; no
\* command is sent on a NULL handle; the transport is closed at most once
\* per open, also when both connections hang up in one iteration and when
\* shutdown follows a transport hang-up.
C19_NoHandleNoRegistry ==
    /\ [](~ctl_hdl => ctl_list = <<>>)
    /\ [](C19_SentOnHandle)
    /\ [][C19_ClosedOnce]_vars

\* What holds of C19: the commands and the closes, without the registry
\* being empty under a NULL handle.
C19_HandleUse ==
    /\ [](C19_SentOnHandle)
    /\ [][C19_ClosedOnce]_vars

\* ctl_open has rejected the transport for too many descriptors: the handle
\* is NULL and the controls of the dump are in the registry.
C19_Witness ==
    /\ last.op = "KeyPress"
    /\ last.closes >= 1
    /\ ~ctl_hdl
    /\ ctl_list # <<>>

----------------------------------------------------------------------------
\* Descriptor accounting

\* C20: while the display is open, maxfds is 1 plus ctl_maxfds when the
\* transport is open and 1 when it is not, whatever opens, failed opens,
\* rejections and closes came before, and it is below MAXFDS; the entries
\* given to poll never exceed the MAXFDS entries of pfds.
C20_BudgetExact ==
    /\ pc # "done" =>
           /\ maxfds = 1 + (IF ctl_hdl THEN ctl_maxfds ELSE 0)
           /\ maxfds < MAXFDS
    /\ last.op = "DrainDone" => (last.nfds >= 1 /\ last.nfds <= MAXFDS)

\* The loop polls 63 entries: a transport that announced 62 descriptors,
\* all of them in use, and the display.
C20_Witness ==
    /\ pc = "wait"
    /\ last.op = "DrainDone"
    /\ ctl_hdl
    /\ ctl_maxfds = MAXFDS - 2
    /\ maxfds = MAXFDS - 1
    /\ last.nfds = MAXFDS - 1

=============================================================================
